---- MODULE Spec2Model ----
(***************************************************************************)
(* Model of rename_camera.py: the grid search over mkfs.jffs2 parameters   *)
(* (scan_for_correct_build_args), the comparators it scores candidates     *)
(* with, and the part of main that drives the search or a one-shot build.  *)
(*                                                                         *)
(* Encoding of Python values:                                              *)
(*   - a file is a record [exists, data]; data is a sequence of bytes      *)
(*   - None, True and False of the option lists are the strings "None",    *)
(*     "True", "False" (the option value "none" of compr_modes is another  *)
(*     string)                                                             *)
(*   - float('inf') is Inf, ordered above every integer by Less            *)
(*   - a SHA-256 digest is modelled as collision free: the digest of a     *)
(*     file is its content, wrapped so that it differs from None           *)
(*   - a string made by " ".join(...) is the sequence of its space         *)
(*     separated tokens; a token is a sequence of string pieces            *)
(***************************************************************************)
EXTENDS Integers, Sequences, FiniteSets, TLC

VARIABLES
    pc,                  \* position of the program
    fs,                  \* files: original_file, test_output_file
    tree,                \* source tree: node -> timestamp
    lens,                \* length of each of the 16 option lists
    idx,                 \* loop variables: position in each option list
    current,             \* counter of line 436/459
    original_hash,       \* line 423
    success,             \* line 502
    differences,         \* line 507
    closest_differences, \* line 439
    closest_params,      \* line 440
    closest_combination, \* line 441
    ret,                 \* value returned by scan_for_correct_build_args
    log,                 \* history: one record per build attempt of the search
    writer,              \* history: build attempt that wrote test_output_file
    dump1,               \* result of the dump tool on file1
    dump2,               \* result of the dump tool on file2
    dumps_match,         \* result of compare_jffs2_dumps
    normalizer_runs,     \* history: calls of set_timestamps_recursively
    tmpdirs,             \* temporary directories of compare_jffs2 that exist: name -> content
    tmpdir1,             \* line 357
    tmpdir2,             \* line 358
    mkdtemp_count,       \* history: temporary directories created so far
    extract_runs,        \* history: runs of the extraction tool dump.jffs2
    jffs2_result,        \* how the last call of compare_jffs2 ended
    named,               \* keyword arguments given to build_jffs2
    rtuple,              \* loop variables the option string is assembled from
    cmd_named,           \* command line of build_jffs2
    cmd_string           \* command line of build_jffs2_from_params

jffs2Vars == <<tmpdirs, tmpdir1, tmpdir2, mkdtemp_count, extract_runs, jffs2_result>>

renderVars == <<named, rtuple, cmd_named, cmd_string>>

otherVars == <<jffs2Vars, renderVars>>

vars == <<pc, fs, tree, lens, idx, current, original_hash, success, differences,
          closest_differences, closest_params, closest_combination, ret, log,
          writer, dump1, dump2, dumps_match, normalizer_runs, jffs2Vars, renderVars>>

----------------------------------------------------------------------------
(* Bounds *)

MaxOpt == 2        \* longest option list of a varied dimension
MaxTotal == 4      \* largest total_combinations explored
MaxImgLen == 2     \* longest image (bytes) in the search
MaxLen == 6        \* longest file (bytes) given to compare_binaries_32bit alone
MaxTail == 2       \* characters of dump output after the common line prefix
MaxPad == 21       \* longest run of identical lines opening a dump output

Bytes == {0, 1}
VaryDims == {9, 16}   \* option lists given more than one value: squash, enable_compressors

(* Program constants *)

chunk_size == 4
DumpLines == 20
CloseThreshold == 2000
unix_time == 1704288652
Inf == -1

----------------------------------------------------------------------------
(* Values *)

None == "None"

Truthy(v) == v \notin {"None", "False", ""}

Missing == [exists |-> FALSE, data |-> <<>>]

File(bytes) == [exists |-> TRUE, data |-> bytes]

NoHash == [some |-> FALSE, digest |-> <<>>]

NoCombination == [tag |-> "None"]

NoParams == <<>>

RECURSIVE SeqsUpTo(_, _)
SeqsUpTo(S, n) ==
    IF n = 0 THEN {<<>>}
    ELSE LET shorter == SeqsUpTo(S, n - 1)
         IN  shorter \cup {Append(s, x) : s \in {t \in shorter : Len(t) = n - 1}, x \in S}

Images == {File(b) : b \in SeqsUpTo(Bytes, MaxImgLen)}

\* float comparison a < b with Inf = float('inf')
Less(a, b) == a # Inf /\ (b = Inf \/ a < b)

----------------------------------------------------------------------------
(* get_file_hash *)

get_file_hash(f) ==
    IF f.exists THEN [some |-> TRUE, digest |-> f.data] ELSE NoHash

----------------------------------------------------------------------------
(* compare_binaries_32bit *)

\* f.read(chunk_size) at offset pos
Read(data, pos) ==
    SubSeq(data, pos + 1, IF pos + chunk_size <= Len(data) THEN pos + chunk_size ELSE Len(data))

RECURSIVE CompareLoop_OnePenalty(_, _, _, _)
\* the loop with a length mismatch counted once, whatever is left on each side
CompareLoop_OnePenalty(d1, d2, pos, diffs) ==
    LET chunk1 == Read(d1, pos)
        chunk2 == Read(d2, pos)
    IN  IF Len(chunk1) # Len(chunk2)
        THEN diffs + 1
        ELSE IF chunk1 = <<>>
        THEN diffs
        ELSE CompareLoop_OnePenalty(d1, d2, pos + chunk_size,
                                    IF chunk1 # chunk2 THEN diffs + 1 ELSE diffs)

RECURSIVE CompareLoop(_, _, _, _)
CompareLoop(d1, d2, pos, diffs) ==
    LET chunk1 == Read(d1, pos)
        chunk2 == Read(d2, pos)
    IN  IF Len(chunk1) # Len(chunk2)
        THEN diffs + (IF chunk1 # <<>> THEN 1 ELSE 0) + (IF chunk2 # <<>> THEN 1 ELSE 0)
        ELSE IF chunk1 = <<>>
        THEN diffs
        ELSE CompareLoop(d1, d2, pos + chunk_size,
                         IF chunk1 # chunk2 THEN diffs + 1 ELSE diffs)

compare_binaries_32bit(file1, file2) ==
    IF file1.exists /\ file2.exists
    THEN CompareLoop(file1.data, file2.data, 0, 0)
    ELSE Inf

----------------------------------------------------------------------------
(* get_jffs2_dump, compare_jffs2_dumps *)

NL == "\n"

NoDump == [some |-> FALSE, text |-> <<>>]

\* result.stdout.split('\n') on a sequence of characters
RECURSIVE SplitLoop(_, _, _, _)
SplitLoop(s, i, lines, cur) ==
    IF i > Len(s) THEN Append(lines, cur)
    ELSE IF s[i] = NL THEN SplitLoop(s, i + 1, Append(lines, cur), <<>>)
    ELSE SplitLoop(s, i + 1, lines, Append(cur, s[i]))

Split(s) == SplitLoop(s, 1, <<>>, <<>>)

\* lines[:n]
Take(lines, n) == SubSeq(lines, 1, IF Len(lines) < n THEN Len(lines) ELSE n)

\* '\n'.join(lines)
RECURSIVE Join(_)
Join(lines) ==
    IF Len(lines) = 0 THEN <<>>
    ELSE IF Len(lines) = 1 THEN lines[1]
    ELSE lines[1] \o <<NL>> \o Join(Tail(lines))

\* run is the outcome of subprocess.run(["wsl", "jffs2dump", "-c", "-v", filepath]):
\* status "ok" (returncode 0), "fail" (non-zero) or "notfound" (FileNotFoundError)
get_jffs2_dump(run) ==
    IF run.status = "ok"
    THEN [some |-> TRUE, text |-> Join(Take(Split(run.stdout), DumpLines))]
    ELSE NoDump

\* truth value of a dump: None and '' are false
DumpTruthy(d) == d.some /\ d.text # <<>>

compare_jffs2_dumps(run1, run2) ==
    LET d1 == get_jffs2_dump(run1)
        d2 == get_jffs2_dump(run2)
    IN  IF DumpTruthy(d1) /\ DumpTruthy(d2) THEN d1 = d2 ELSE FALSE

----------------------------------------------------------------------------
(* The search space of scan_for_correct_build_args *)

Dims == 1..16

\* the option lists of lines 403-421 in loop order; a varied dimension takes
\* its further values from the alternatives the source lists in comments
OptionList(d) ==
    CASE d = 1  -> <<"0x8000", "0x10000">>                 \* erase_sizes
      [] d = 2  -> <<"0x1000", "256">>                     \* page_sizes
      [] d = 3  -> <<"0x100000", None>>                    \* pad_sizes
      [] d = 4  -> <<None, "lzo", "zlib">>                 \* compressions
      [] d = 5  -> <<"-l">>                                \* endianness_options
      [] d = 6  -> <<"True">>                              \* cleanmarker_options
      [] d = 7  -> <<None, "16", "20">>                    \* cleanmarker_sizes
      [] d = 8  -> <<"False">>                             \* faketime_options
      [] d = 9  -> <<"all", None, "perms", "uids">>        \* squash_options
      [] d = 10 -> <<None, "none", "priority", "size">>    \* compr_modes
      [] d = 11 -> <<"False", "True">>                     \* xattr_options
      [] d = 12 -> <<"False", "True">>                     \* selinux_options
      [] d = 13 -> <<"False", "True">>                     \* posix_acl_options
      [] d = 14 -> <<None>>                                \* device_table
      [] d = 15 -> <<None, "lzo", "zlib", "rtime">>        \* disable_compressors
      [] d = 16 -> <<None, "lzo", "zlib", "rtime">>        \* enable_compressors

RECURSIVE ProductFrom(_, _)
ProductFrom(l, d) == IF d > 16 THEN 1 ELSE l[d] * ProductFrom(l, d + 1)

\* lines 431-435
total_combinations(l) == ProductFrom(l, 1)

SearchSpaces ==
    {l \in {[d \in Dims |-> IF d \in VaryDims THEN v[d] ELSE 1] : v \in [VaryDims -> 1..MaxOpt]} :
        /\ \A d \in Dims : l[d] <= Len(OptionList(d))
        /\ total_combinations(l) <= MaxTotal}

FirstTuple == [d \in Dims |-> 1]

\* the loops of lines 443-458 are exhausted
LastTuple(l, t) == \A d \in Dims : t[d] = l[d]

\* the loops nested the other way round: the outermost list advances first
NextTuple_OuterFirst(l, t) ==
    LET d == CHOOSE e \in Dims : t[e] < l[e] /\ \A g \in Dims : g < e => t[g] = l[g]
    IN  [e \in Dims |-> IF e > d THEN t[e] ELSE IF e = d THEN t[e] + 1 ELSE 1]

\* the next iteration of the nested loops: the innermost loop that has a
\* further value advances, every loop nested inside it starts again
NextTuple(l, t) ==
    LET d == CHOOSE e \in Dims : t[e] < l[e] /\ \A g \in Dims : g > e => t[g] = l[g]
    IN  [e \in Dims |-> IF e < d THEN t[e] ELSE IF e = d THEN t[e] + 1 ELSE 1]

\* the loop variables of a tuple
Value(t, d) == OptionList(d)[t[d]]

\* the dictionary of lines 517-532 and 550-565
Combination(t) ==
    [tag |-> "dict",
     erase_size |-> Value(t, 1), page_size |-> Value(t, 2), pad_size |-> Value(t, 3),
     compression |-> Value(t, 4), endianness |-> Value(t, 5),
     no_cleanmarkers |-> Value(t, 6), cleanmarker_size |-> Value(t, 7),
     faketime |-> Value(t, 8), squash |-> Value(t, 9), compr_mode |-> Value(t, 10),
     with_xattr |-> Value(t, 11), with_selinux |-> Value(t, 12),
     with_posix_acl |-> Value(t, 13), devtable |-> Value(t, 14)]

\* lines 462-494: param_str as its sequence of tokens; devtable_exists is
\* os.path.exists(devtable)
ParamStr(t, devtable_exists) ==
    <<<<"-e">>, <<Value(t, 1)>>, <<"-s">>, <<Value(t, 2)>>>>
    \o (IF Truthy(Value(t, 3)) THEN <<<<"--pad=", Value(t, 3)>>>> ELSE <<>>)
    \o (IF Truthy(Value(t, 4)) THEN <<<<"-q">>, <<Value(t, 4)>>>> ELSE <<>>)
    \o (IF Value(t, 5) # "" THEN <<<<Value(t, 5)>>>> ELSE <<>>)
    \o (IF Truthy(Value(t, 6)) THEN <<<<"-n">>>> ELSE <<>>)
    \o (IF Truthy(Value(t, 7)) THEN <<<<"-c">>, <<Value(t, 7)>>>> ELSE <<>>)
    \o (IF Truthy(Value(t, 8)) THEN <<<<"-f">>>> ELSE <<>>)
    \o (IF Value(t, 9) = "all" THEN <<<<"-q">>>>
        ELSE IF Value(t, 9) = "uids" THEN <<<<"-U">>>>
        ELSE IF Value(t, 9) = "perms" THEN <<<<"-P">>>>
        ELSE <<>>)
    \o (IF Truthy(Value(t, 10)) THEN <<<<"--compression-mode=", Value(t, 10)>>>> ELSE <<>>)
    \o (IF Truthy(Value(t, 11)) THEN <<<<"--with-xattr">>>> ELSE <<>>)
    \o (IF Truthy(Value(t, 12)) THEN <<<<"--with-selinux">>>> ELSE <<>>)
    \o (IF Truthy(Value(t, 13)) THEN <<<<"--with-posix-acl">>>> ELSE <<>>)
    \o (IF Truthy(Value(t, 14)) /\ devtable_exists THEN <<<<"-D">>, <<Value(t, 14)>>>> ELSE <<>>)
    \o (IF Truthy(Value(t, 15)) THEN <<<<"--disable-compressor=", Value(t, 15)>>>> ELSE <<>>)
    \o (IF Truthy(Value(t, 16)) THEN <<<<"--enable-compressor=", Value(t, 16)>>>> ELSE <<>>)

\* lines 16-25: the command line of build_jffs2_from_params
build_jffs2_from_params_cmd(source_dir, output_file, params_string) ==
    <<<<"wsl">>, <<"mkfs.jffs2">>, <<"-r">>, <<source_dir>>, <<"-o">>, <<output_file>>>>
    \o params_string

\* line 661: the parameters of the one-shot build of main
MainParams ==
    <<<<"-e">>, <<"0x8000">>, <<"-s">>, <<"0x1000">>, <<"--pad=0x100000">>,
      <<"-l">>, <<"-n">>, <<"-q">>>>

----------------------------------------------------------------------------
(* set_timestamps_recursively *)

\* a source tree: the root directory, a directory and a file in it, and a
\* file in the directory
TreeNodes == {"root", "root/dir", "root/file", "root/dir/file"}

\* os.walk(root_dir) yields root_dir and every directory below it; the files
\* and the directories listed in each are updated (lines 325-342)
set_timestamps_recursively(tr, root_dir, t) ==
    [n \in TreeNodes |-> IF n # root_dir THEN t ELSE tr[n]]

----------------------------------------------------------------------------
(* The image-building tool *)

\* what a run of ["wsl", "mkfs.jffs2", "-r", source_dir, "-o", output_file, ...]
\* can do to the file at the output path, found in state before: exit 0 with an
\* image written, exit 0 with nothing written at that path, a non-zero exit
\* that leaves the path alone or leaves a truncated file, or no tool at all
MkfsOutcomes(before) ==
    {[status |-> "ok", wrote |-> TRUE, file |-> img] : img \in Images}
    \cup {[status |-> "ok", wrote |-> FALSE, file |-> before],
          [status |-> "fail", wrote |-> FALSE, file |-> before],
          [status |-> "fail", wrote |-> TRUE, file |-> File(<<>>)],
          [status |-> "notfound", wrote |-> FALSE, file |-> before]}

\* the return code not looked at: only a missing tool is a failure
build_jffs2_from_params_IgnoreExit(status) == status # "notfound"

\* lines 27-36: the value build_jffs2_from_params returns
build_jffs2_from_params(status) == status = "ok"

\* the check of the reference digest left out
HashMissing_Never(h) == FALSE

\* line 424: if not original_hash
HashMissing(h) == ~h.some

\* <= in place of <
IsCloser_OrEqual(d, closest) == ~Less(closest, d)

\* line 514: differences < closest_differences
IsCloser(d, closest) == Less(d, closest)

\* the comparison with the reference digest left out
HashMatch_AnyHash(test_hash, orig_hash) == test_hash.some

\* line 547: test_hash and test_hash == original_hash
HashMatch(test_hash, orig_hash) == test_hash.some /\ test_hash = orig_hash

\* line 570: if closest_params
HasClosest(params) == params # NoParams

----------------------------------------------------------------------------
(* State *)

Pending == [tag |-> "pending"]

InitialOutputs == {Missing, File(<<0>>)}

NoRun == [status |-> "notfound", stdout |-> <<>>]

Idle ==
    /\ tree = [n \in TreeNodes |-> 0]
    /\ idx = FirstTuple
    /\ current = 0
    /\ original_hash = NoHash
    /\ success = FALSE
    /\ differences = Inf
    /\ closest_differences = Inf
    /\ closest_params = NoParams
    /\ closest_combination = NoCombination
    /\ ret = Pending
    /\ log = <<>>
    /\ writer = 0
    /\ dumps_match = FALSE
    /\ normalizer_runs = 0

NoDir == 0

NoTmpDirs == <<>>

\* compare_jffs2 has not been called
IdleJffs2 ==
    /\ tmpdirs = NoTmpDirs
    /\ tmpdir1 = NoDir
    /\ tmpdir2 = NoDir
    /\ mkdtemp_count = 0
    /\ extract_runs = 0
    /\ jffs2_result = None

\* no command line has been rendered
IdleRender ==
    /\ named = [tag |-> "None"]
    /\ rtuple = FirstTuple
    /\ cmd_named = <<>>
    /\ cmd_string = <<>>

Init ==
    /\ pc = "main"
    /\ fs \in [original_file : {Missing} \cup Images, test_output_file : InitialOutputs]
    /\ lens \in SearchSpaces
    /\ dump1 = NoRun
    /\ dump2 = NoRun
    /\ Idle
    /\ IdleJffs2
    /\ IdleRender

searchVars == <<tree, lens, idx, current, original_hash, success, differences,
                closest_differences, closest_params, closest_combination, ret, log>>

dumpVars == <<dump1, dump2, dumps_match>>

----------------------------------------------------------------------------
(* main *)

\* lines 593-625: sys.exit(1) on an empty name, a missing Firmware directory
\* or a missing config file
MainExit ==
    /\ pc = "main"
    /\ pc' = "exit"
    /\ UNCHANGED <<fs, writer, searchVars, dumpVars, otherVars,
                   normalizer_runs>>

\* lines 655-657
MainGridSearch ==
    /\ pc = "main"
    /\ pc' = "scan"
    /\ UNCHANGED <<fs, writer, searchVars, dumpVars, otherVars,
                   normalizer_runs>>

\* lines 658-661: the one-shot build is about to invoke the tool
MainOneShot ==
    /\ pc = "main"
    /\ pc' = "main_build"
    /\ UNCHANGED <<fs, writer, searchVars, dumpVars, otherVars,
                   normalizer_runs>>

\* line 662: build_jffs2_from_params(input_dir, output_file, params)
MainBuild ==
    /\ pc = "main_build"
    /\ \E o \in MkfsOutcomes(fs.test_output_file) :
          /\ fs' = [fs EXCEPT !.test_output_file = o.file]
          /\ success' = build_jffs2_from_params(o.status)
    /\ pc' = "exit"
    /\ UNCHANGED <<writer, tree, lens, idx, current, original_hash, differences,
                   closest_differences, closest_params, closest_combination, ret, log,
                   dumpVars, otherVars,
                   normalizer_runs>>

----------------------------------------------------------------------------
(* scan_for_correct_build_args *)

\* lines 399-441: normalise the timestamps, hash the reference, set up the search
ScanInit ==
    /\ pc = "scan"
    /\ tree' = set_timestamps_recursively(tree, "root", unix_time)
    /\ normalizer_runs' = normalizer_runs + 1
    /\ original_hash' = get_file_hash(fs.original_file)
    /\ IF HashMissing(original_hash')
       THEN /\ ret' = NoCombination
            /\ pc' = "aborted"
            /\ UNCHANGED <<current, closest_differences, closest_params,
                           closest_combination, idx>>
       ELSE /\ ret' = ret
            /\ pc' = "iter"
            /\ current' = 0
            /\ closest_differences' = Inf
            /\ closest_params' = NoParams
            /\ closest_combination' = NoCombination
            /\ idx' = FirstTuple
    /\ UNCHANGED <<fs, writer, lens, success, differences, log, dumpVars, otherVars>>

Iter_Renormalise ==
    /\ pc = "iter"
    /\ tree' = set_timestamps_recursively(tree, "root", unix_time)
    /\ normalizer_runs' = normalizer_runs + 1
    /\ current' = current + 1
    /\ fs' = [fs EXCEPT !.test_output_file = Missing]
    /\ writer' = 0
    /\ pc' = "build"
    /\ UNCHANGED <<lens, idx, original_hash, success, differences,
                   closest_differences, closest_params, closest_combination, ret, log,
                   dumpVars, otherVars>>

\* lines 459-499: count the tuple, remove the previous test file
Iter ==
    /\ pc = "iter"
    /\ current' = current + 1
    /\ fs' = [fs EXCEPT !.test_output_file = Missing]
    /\ writer' = 0
    /\ pc' = "build"
    /\ UNCHANGED <<tree, lens, idx, original_hash, success, differences,
                   closest_differences, closest_params, closest_combination, ret, log,
                   dumpVars, otherVars,
                   normalizer_runs>>

\* the loops of lines 443-458 move on: to the next tuple, or past the loops
Continue ==
    IF LastTuple(lens, idx)
    THEN pc' = "after_loop" /\ idx' = idx
    ELSE pc' = "iter" /\ idx' = NextTuple(lens, idx)

\* lines 502-504: build the candidate; a failed build moves on to the next tuple
Build ==
    /\ pc = "build"
    /\ \E o \in MkfsOutcomes(fs.test_output_file) :
          /\ fs' = [fs EXCEPT !.test_output_file = o.file]
          /\ writer' = IF o.wrote THEN current ELSE writer
          /\ success' = build_jffs2_from_params(o.status)
          /\ log' = Append(log, [t |-> idx, ok |-> o.status = "ok",
                                 match |-> o.file.exists /\ fs.original_file.exists
                                           /\ o.file.data = fs.original_file.data,
                                 scored |-> FALSE, score |-> Inf])
    /\ IF success' THEN pc' = "score" /\ idx' = idx ELSE Continue
    /\ UNCHANGED <<tree, lens, current, original_hash, differences,
                   closest_differences, closest_params, closest_combination, ret,
                   dumpVars, otherVars,
                   normalizer_runs>>

\* lines 505-565: hash and score the candidate, keep it if it is the closest,
\* return it on a hash match. The dump comparison of line 506 and the analysis
\* of lines 541-545 only print. Line 508 names compare_jffs2 without calling it
\* and extract_and_compare_files (lines 232-282) reads the two images as raw
\* bytes, so no step runs dump.jffs2 or creates an extraction directory.
Score ==
    /\ pc = "score"
    /\ LET test_hash == get_file_hash(fs.test_output_file)
           d == compare_binaries_32bit(fs.original_file, fs.test_output_file)
       IN  /\ differences' = d
           /\ log' = [log EXCEPT ![Len(log)].scored = TRUE, ![Len(log)].score = d]
           /\ IF IsCloser(d, closest_differences)
              THEN /\ closest_differences' = d
                   /\ closest_params' = ParamStr(idx, FALSE)
                   /\ closest_combination' = Combination(idx)
              ELSE UNCHANGED <<closest_differences, closest_params, closest_combination>>
           /\ IF HashMatch(test_hash, original_hash)
              THEN /\ ret' = Combination(idx)
                   /\ pc' = "exact_match"
                   /\ idx' = idx
              ELSE /\ ret' = ret
                   /\ Continue
    /\ UNCHANGED <<fs, writer, tree, lens, current, original_hash, success, dumpVars, otherVars,
                   normalizer_runs>>

\* lines 567-576: the space is exhausted
Exhausted ==
    /\ pc = "after_loop"
    /\ ret' = IF HasClosest(closest_params) THEN closest_combination ELSE NoCombination
    /\ pc' = "exhausted"
    /\ UNCHANGED <<fs, writer, tree, lens, idx, current, original_hash, success,
                   differences, closest_differences, closest_params,
                   closest_combination, log, dumpVars, otherVars,
                   normalizer_runs>>

Next ==
    \/ MainExit
    \/ MainGridSearch
    \/ MainOneShot
    \/ MainBuild
    \/ ScanInit
    \/ Iter
    \/ Build
    \/ Score
    \/ Exhausted

Spec == Init /\ [][Next]_vars

----------------------------------------------------------------------------
(* compare_binaries_32bit on its own: every pair of files up to MaxLen bytes *)

Files == {Missing} \cup {File(b) : b \in SeqsUpTo(Bytes, MaxLen)}

InitCmp ==
    /\ pc = "cmp"
    /\ fs \in [original_file : Files, test_output_file : Files]
    /\ lens = [d \in Dims |-> 1]
    /\ dump1 = NoRun
    /\ dump2 = NoRun
    /\ Idle
    /\ IdleJffs2
    /\ IdleRender

\* line 507: differences = compare_binaries_32bit(original_file, test_output_file)
CompareBinaries ==
    /\ pc = "cmp"
    /\ differences' = compare_binaries_32bit(fs.original_file, fs.test_output_file)
    /\ pc' = "cmp_done"
    /\ UNCHANGED <<fs, writer, tree, lens, idx, current, original_hash, success,
                   closest_differences, closest_params, closest_combination, ret, log,
                   dumpVars, otherVars,
                   normalizer_runs>>

NextCmp == CompareBinaries

SpecCmp == InitCmp /\ [][NextCmp]_vars

----------------------------------------------------------------------------
(* compare_jffs2_dumps on its own: every pair of outcomes of the dump tool *)

Chars == {"a", "b", NL}

RECURSIVE Lines(_)
\* n lines "a", each ended by a newline
Lines(n) == IF n = 0 THEN <<>> ELSE <<"a", NL>> \o Lines(n - 1)

PadLens == {0} \cup {n \in 1..MaxPad : n >= MaxPad - 2}

Stdouts == {Lines(n) \o tail : n \in PadLens, tail \in SeqsUpTo(Chars, MaxTail)}

DumpRuns ==
    {[status |-> "ok", stdout |-> out] : out \in Stdouts}
    \cup {[status |-> "fail", stdout |-> <<>>], NoRun}

InitDump ==
    /\ pc = "dump"
    /\ fs = [original_file |-> Missing, test_output_file |-> Missing]
    /\ lens = [d \in Dims |-> 1]
    /\ dump1 \in DumpRuns
    /\ dump2 \in DumpRuns
    /\ Idle
    /\ IdleJffs2
    /\ IdleRender

\* line 506: dumps_match = compare_jffs2_dumps(original_file, test_output_file)
CompareDumps ==
    /\ pc = "dump"
    /\ dumps_match' = compare_jffs2_dumps(dump1, dump2)
    /\ pc' = "dump_done"
    /\ UNCHANGED <<fs, writer, searchVars, dump1, dump2, otherVars, normalizer_runs>>

NextDump == CompareDumps

SpecDump == InitDump /\ [][NextDump]_vars

----------------------------------------------------------------------------
(* compare_jffs2 (lines 350-391), called any number of times.  The search  *)
(* never calls it (line 508 only names it), so it has a specification of   *)
(* its own.                                                                *)

MaxComparisons == 2

\* paths below an extraction directory: a file "a" and a file "a" in a directory "d"
Paths == {<<"a">>, <<"d", "a">>}

\* what os.stat and a read tell about an extracted file (all of one size)
FileStats == [data : Bytes, mtime : Bytes]

Trees == UNION {[S -> FileStats] : S \in SUBSET Paths}

EmptyTree == <<>>

IsPrefix(dir, p) == Len(p) > Len(dir) /\ SubSeq(p, 1, Len(dir)) = dir

\* os.listdir(dir)
Names(t, dir) == {p[Len(dir) + 1] : p \in {q \in DOMAIN t : IsPrefix(dir, q)}}

IsDir(t, dir, n) == \E q \in DOMAIN t : IsPrefix(Append(dir, n), q)

\* filecmp.cmp(shallow=True): equal stat signatures (size, mtime) pass for
\* equal files without a read, otherwise the contents are read
filecmp_cmp(f1, f2) == f1.mtime = f2.mtime \/ f1.data = f2.data

RECURSIVE report_diff(_, _, _)
\* lines 368-378: the directories in which left_only, right_only or diff_files
\* is not empty
report_diff(t1, t2, dir) ==
    LET left == Names(t1, dir)
        right == Names(t2, dir)
        common == left \cap right
        common_dirs == {n \in common : IsDir(t1, dir, n) /\ IsDir(t2, dir, n)}
        common_files == {n \in common : ~IsDir(t1, dir, n) /\ ~IsDir(t2, dir, n)}
        diff_files == {n \in common_files :
                          ~filecmp_cmp(t1[Append(dir, n)], t2[Append(dir, n)])}
        here == IF (left \ right) \cup (right \ left) \cup diff_files # {}
                THEN {dir} ELSE {}
    IN here \cup UNION {report_diff(t1, t2, Append(dir, n)) : n \in common_dirs}

\* tempfile.mkdtemp: a new empty directory under a name never used before
mkdtemp(dirs, name) == [d \in DOMAIN dirs \cup {name} |->
                           IF d = name THEN EmptyTree ELSE dirs[d]]

rmtree_Keep(dirs, d) == dirs

\* shutil.rmtree
rmtree(dirs, d) == [e \in DOMAIN dirs \ {d} |-> dirs[e]]

\* dump.jffs2 -r dir -d img: the tool leaves some tree in dir
Extracted(dirs, d, t) == [dirs EXCEPT ![d] = t]

InitJffs2 ==
    /\ pc = "jffs2_idle"
    /\ fs = [original_file |-> Missing, test_output_file |-> Missing]
    /\ lens = [d \in Dims |-> 1]
    /\ dump1 = NoRun
    /\ dump2 = NoRun
    /\ Idle
    /\ IdleJffs2
    /\ IdleRender

jffs2Frame == <<fs, writer, searchVars, dumpVars, renderVars, normalizer_runs>>

\* lines 357-358
Jffs2Begin ==
    /\ pc = "jffs2_idle"
    /\ mkdtemp_count + 2 <= 2 * MaxComparisons
    /\ tmpdir1' = mkdtemp_count + 1
    /\ tmpdir2' = mkdtemp_count + 2
    /\ tmpdirs' = mkdtemp(mkdtemp(tmpdirs, mkdtemp_count + 1), mkdtemp_count + 2)
    /\ mkdtemp_count' = mkdtemp_count + 2
    /\ jffs2_result' = Pending
    /\ pc' = "jffs2_extract1"
    /\ UNCHANGED <<extract_runs, jffs2Frame>>

\* lines 362 and 363: subprocess.run(["dump.jffs2", ...], check=True); a missing
\* tool raises FileNotFoundError, a non-zero exit raises CalledProcessError and
\* may leave a partial tree; jffs2_result holds the pending exception or value
\* until the finally block has run
Jffs2Extract(at, dir, then) ==
    /\ pc = at
    /\ extract_runs' = extract_runs + 1
    /\ \/ /\ tmpdirs' = tmpdirs
          /\ jffs2_result' = "FileNotFoundError"
          /\ pc' = "jffs2_finally"
       \/ \E t \in Trees :
             /\ tmpdirs' = Extracted(tmpdirs, dir, t)
             /\ \/ /\ jffs2_result' = "CalledProcessError"
                   /\ pc' = "jffs2_finally"
                \/ /\ jffs2_result' = jffs2_result
                   /\ pc' = then
    /\ UNCHANGED <<tmpdir1, tmpdir2, mkdtemp_count, jffs2Frame>>

Jffs2Extract1 == Jffs2Extract("jffs2_extract1", tmpdir1, "jffs2_extract2")

Jffs2Extract2 == Jffs2Extract("jffs2_extract2", tmpdir2, "jffs2_compare")

\* lines 366-385
Jffs2Compare ==
    /\ pc = "jffs2_compare"
    /\ jffs2_result' = IF report_diff(tmpdirs[tmpdir1], tmpdirs[tmpdir2], <<>>) # {}
                       THEN "False" ELSE "True"
    /\ pc' = "jffs2_finally"
    /\ UNCHANGED <<tmpdirs, tmpdir1, tmpdir2, mkdtemp_count, extract_runs, jffs2Frame>>

\* lines 387-390
Jffs2Finally ==
    /\ pc = "jffs2_finally"
    /\ tmpdirs' = rmtree(rmtree(tmpdirs, tmpdir1), tmpdir2)
    /\ tmpdir1' = NoDir
    /\ tmpdir2' = NoDir
    /\ pc' = "jffs2_idle"
    /\ UNCHANGED <<mkdtemp_count, extract_runs, jffs2_result, jffs2Frame>>

NextJffs2 ==
    \/ Jffs2Begin
    \/ Jffs2Extract1
    \/ Jffs2Extract2
    \/ Jffs2Compare
    \/ Jffs2Finally

SpecJffs2 == InitJffs2 /\ [][NextJffs2]_vars

----------------------------------------------------------------------------
(* The two renderings of the command line: build_jffs2 (lines 38-89) from  *)
(* named parameters, and the option string of the search loop (lines       *)
(* 462-494) split by build_jffs2_from_params (lines 16-25).                *)

\* the option lists taken in full; the other loops stay at their first value
RenderDims == {3, 4, 9, 10, 11, 15, 16}

RenderTuples ==
    {t \in {[d \in Dims |-> IF d \in RenderDims THEN v[d] ELSE 1] :
                v \in [RenderDims -> 1..4]} :
        \A d \in Dims : t[d] <= Len(OptionList(d))}

PyBool(b) == IF b THEN "True" ELSE "False"

\* the keyword arguments of build_jffs2 (lines 38-42) that stand for the loop
\* variables of a tuple
NamedParams(t) ==
    [erase_size |-> Value(t, 1), page_size |-> Value(t, 2), pad_size |-> Value(t, 3),
     compression |-> Value(t, 4), endianness |-> Value(t, 5),
     no_cleanmarkers |-> Value(t, 6), cleanmarker_size |-> Value(t, 7),
     faketime |-> Value(t, 8),
     squash_perms |-> PyBool(Value(t, 9) = "perms"),
     squash_uids |-> PyBool(Value(t, 9) = "uids"),
     squash_all |-> PyBool(Value(t, 9) = "all"),
     compr_mode |-> Value(t, 10), with_xattr |-> Value(t, 11),
     with_selinux |-> Value(t, 12), with_posix_acl |-> Value(t, 13),
     devtable |-> Value(t, 14),
     disable_compressor |-> Value(t, 15), enable_compressor |-> Value(t, 16)]

\* the same arguments with any of the three squash switches set
NamedChoices(t) ==
    {[NamedParams(t) EXCEPT !.squash_all = a, !.squash_uids = u, !.squash_perms = p] :
        a \in {"True", "False"}, u \in {"True", "False"}, p \in {"True", "False"}}

\* lines 43-89: cmd of build_jffs2; disable_compressor and enable_compressor
\* are accepted (line 42) and never read
build_jffs2_cmd(source_dir, output_file, n, devtable_exists) ==
    <<<<"wsl">>, <<"mkfs.jffs2">>, <<"-r">>, <<source_dir>>, <<"-o">>, <<output_file>>,
      <<"-e">>, <<n.erase_size>>, <<"-s">>, <<n.page_size>>>>
    \o (IF Truthy(n.compression) THEN <<<<"-q">>, <<n.compression>>>> ELSE <<>>)
    \o (IF Truthy(n.pad_size) THEN <<<<"-p">>, <<n.pad_size>>>> ELSE <<>>)
    \o (IF Truthy(n.endianness) THEN <<<<n.endianness>>>> ELSE <<>>)
    \o (IF Truthy(n.no_cleanmarkers) THEN <<<<"-n">>>> ELSE <<>>)
    \o (IF Truthy(n.cleanmarker_size) THEN <<<<"-c">>, <<n.cleanmarker_size>>>> ELSE <<>>)
    \o (IF Truthy(n.faketime) THEN <<<<"-f">>>> ELSE <<>>)
    \o (IF Truthy(n.squash_all) THEN <<<<"-q">>>>
        ELSE IF Truthy(n.squash_uids) THEN <<<<"-U">>>>
        ELSE IF Truthy(n.squash_perms) THEN <<<<"-P">>>>
        ELSE <<>>)
    \o (IF Truthy(n.compr_mode) THEN <<<<"-m">>, <<n.compr_mode>>>> ELSE <<>>)
    \o (IF Truthy(n.with_xattr) THEN <<<<"--with-xattr">>>> ELSE <<>>)
    \o (IF Truthy(n.with_selinux) THEN <<<<"--with-selinux">>>> ELSE <<>>)
    \o (IF Truthy(n.with_posix_acl) THEN <<<<"--with-posix-acl">>>> ELSE <<>>)
    \o (IF Truthy(n.devtable) /\ devtable_exists THEN <<<<"-D">>, <<n.devtable>>>> ELSE <<>>)

InitRender ==
    /\ pc = "render"
    /\ fs = [original_file |-> Missing, test_output_file |-> Missing]
    /\ lens = [d \in Dims |-> 1]
    /\ dump1 = NoRun
    /\ dump2 = NoRun
    /\ Idle
    /\ IdleJffs2
    /\ rtuple \in RenderTuples
    /\ named \in NamedChoices(rtuple)
    /\ cmd_named = <<>>
    /\ cmd_string = <<>>

\* lines 43-89, and lines 462-494 with lines 16-25
Render ==
    /\ pc = "render"
    /\ \E devtable_exists \in BOOLEAN :
          /\ cmd_named' = build_jffs2_cmd("source_dir", "output_file", named,
                                          devtable_exists)
          /\ cmd_string' = build_jffs2_from_params_cmd("source_dir", "output_file",
                                                       ParamStr(rtuple, devtable_exists))
    /\ pc' = "rendered"
    /\ UNCHANGED <<fs, writer, searchVars, dumpVars, jffs2Vars, named, rtuple,
                   normalizer_runs>>

NextRender == Render

SpecRender == InitRender /\ [][NextRender]_vars

----------------------------------------------------------------------------
(* Vocabulary of the properties *)

Min(a, b) == IF a < b THEN a ELSE b

RECURSIVE RankFrom(_, _, _, _)
\* the digits t[d] - 1 read as a number in the mixed radix l, first list most
\* significant
RankFrom(l, t, d, acc) ==
    IF d > 16 THEN acc ELSE RankFrom(l, t, d + 1, acc * l[d] + (t[d] - 1))

\* position of tuple t in the Cartesian product of the lists, first list outermost
Rank(l, t) == 1 + RankFrom(l, t, 1, 0)

Attempts == 1..Len(log)

Scored == {i \in Attempts : log[i].scored}

\* the scored attempts with the lowest score, the first of them in enumeration order
FirstLowest ==
    CHOOSE i \in Scored :
        /\ \A j \in Scored : ~Less(log[j].score, log[i].score)
        /\ \A j \in Scored : j < i => Less(log[i].score, log[j].score)

Total == total_combinations(lens)

----------------------------------------------------------------------------
(* Properties of scan_for_correct_build_args *)

\* C1: a successfully built candidate whose content equals the reference ends
\* the search at once: it is the last attempt, it is the k-th tuple of the
\* enumeration after exactly k build attempts, and its parameters are returned.
C1_ExactMatchStops ==
    /\ \A k \in Attempts :
          (log[k].ok /\ log[k].match) =>
              /\ k = Len(log)
              /\ current = k
              /\ Rank(lens, log[k].t) = k
              /\ pc \in {"score", "exact_match"}
              /\ pc = "exact_match" => (log[k].scored /\ ret = Combination(log[k].t))
    /\ pc = "exact_match" =>
          (Len(log) > 0 /\ log[Len(log)].ok /\ log[Len(log)].match)

\* a match at position 3 of 4, after two candidates that were built and scored
C1_Witness ==
    /\ pc = "exact_match"
    /\ Total = 4
    /\ Len(log) = 3
    /\ log[1].scored
    /\ log[2].scored
    /\ ret = Combination(log[3].t)

\* C2: only a tuple whose build reported success is hashed and scored, becomes
\* the closest match or is returned.
C2_OnlySuccessfulBuilds ==
    /\ \A i \in Attempts : ~log[i].ok => ~log[i].scored
    /\ pc = "score" => log[Len(log)].ok
    /\ closest_combination # NoCombination =>
          \E i \in Attempts :
              /\ log[i].ok
              /\ closest_params = ParamStr(log[i].t, FALSE)
              /\ closest_combination = Combination(log[i].t)
    /\ pc = "exact_match" =>
          (log[Len(log)].ok /\ ret = Combination(log[Len(log)].t))
    /\ (pc = "exhausted" /\ ret # NoCombination) =>
          \E i \in Attempts :
              /\ log[i].ok
              /\ closest_params = ParamStr(log[i].t, FALSE)
              /\ ret = Combination(log[i].t)

\* a closest match is returned from a search whose first build failed and
\* left a file behind
C2_Witness ==
    /\ pc = "exhausted"
    /\ ret # NoCombination
    /\ Len(log) >= 2
    /\ ~log[1].ok
    /\ \E i \in Attempts : log[i].ok /\ ret = Combination(log[i].t)

C3_State ==
    /\ log = <<>> =>
          /\ closest_differences = Inf
          /\ closest_params = NoParams
          /\ closest_combination = NoCombination
    /\ \A i \in Scored : ~Less(log[i].score, closest_differences)
    /\ closest_combination # NoCombination =>
          \E i \in Scored :
              /\ log[i].ok
              /\ log[i].score = closest_differences
              /\ closest_params = ParamStr(log[i].t, FALSE)
              /\ closest_combination = Combination(log[i].t)
              /\ \A j \in Scored : j < i => Less(closest_differences, log[j].score)

C3_Step ==
    /\ ~Less(closest_differences, closest_differences')
    /\ <<closest_differences, closest_params, closest_combination>>
         # <<closest_differences', closest_params', closest_combination'>> =>
          /\ pc = "score"
          /\ success
          /\ Less(closest_differences', closest_differences)
          /\ closest_differences' = differences'
          /\ closest_combination' = Combination(idx)

\* C3: the closest match starts as (no parameters, infinite score); its score
\* never increases; it is replaced only by a successfully built candidate with
\* a strictly lower score, so the first candidate of a tie is the one kept.
C3_BestMatchMonotone == [](C3_State) /\ [][C3_Step]_vars

\* the closest score went from 2 to 1 and the first of two candidates with
\* score 1 is the one kept
C3_Witness ==
    /\ Len(log) >= 3
    /\ log[1].scored /\ log[1].score = 2
    /\ log[2].scored /\ log[2].score = 1
    /\ log[3].scored /\ log[3].score = 1
    /\ closest_differences = 1
    /\ closest_params = ParamStr(log[2].t, FALSE)
    /\ closest_params # ParamStr(log[3].t, FALSE)

\* C4: on exhaustion, with at least one candidate built and scored, the
\* parameters returned are those of the scored candidate with the lowest score,
\* the first such candidate in enumeration order.
C4_ReturnsLowestScore ==
    (pc = "exhausted" /\ Scored # {}) => ret = Combination(log[FirstLowest].t)

\* C5: on exhaustion, None is returned if and only if every build failed.
C5_NoneIffAllFailed ==
    pc = "exhausted" => (ret = NoCombination <=> \A i \in Attempts : ~log[i].ok)

C6_Step ==
    /\ (pc = "scan" /\ ~fs.original_file.exists) =>
          /\ pc' = "aborted"
          /\ ret' = NoCombination
          /\ fs' = fs
          /\ log' = <<>>
          /\ current' = 0
    /\ pc = "aborted" => (fs' = fs /\ log' = log /\ current' = current)

\* C6: with an unreadable reference the search aborts in its first step: it
\* returns None, enumerates no tuple, makes no build attempt and leaves the
\* file at the output path as it found it.
C6_AbortOnUnreadableReference ==
    /\ [](pc = "aborted" =>
            /\ ~fs.original_file.exists
            /\ ret = NoCombination
            /\ log = <<>>
            /\ current = 0
            /\ writer = 0)
    /\ [][C6_Step]_vars

\* the search aborted and a file that was at the output path is still there
C6_Witness ==
    /\ pc = "aborted"
    /\ ret = NoCombination
    /\ fs.test_output_file.exists

\* C7: a failed build never ends the search: the attempts follow the nested
\* enumeration order, and a search that ends without a hash match has
\* attempted every tuple of the product exactly once.
C7_FullEnumeration ==
    /\ \A i \in Attempts : Rank(lens, log[i].t) = i
    /\ Len(log) <= Total
    /\ pc \in {"after_loop", "exhausted"} => (Len(log) = Total /\ current = Total)
    /\ (Len(log) > 0 /\ ~log[Len(log)].ok) =>
          IF Len(log) < Total
          THEN pc \in {"iter", "build"}
          ELSE pc \in {"after_loop", "exhausted"}
    /\ pc = "iter" => (current = Len(log) /\ Rank(lens, idx) = current + 1)
    /\ pc = "build" => (current = Len(log) + 1 /\ Rank(lens, idx) = current)

\* four tuples over two varied lists, every build failed, the search went on
\* to the end
C7_Witness ==
    /\ pc = "exhausted"
    /\ Len(log) = 4
    /\ Cardinality({d \in Dims : lens[d] > 1}) = 2
    /\ \A i \in Attempts : ~log[i].ok

\* C8: whenever the image-building tool is invoked (in the search loop and in
\* the one-shot build of main) no file is at the output path, and a file that
\* is hashed and scored was written by the build of the current tuple.
C8_NoStaleOutputAtBuild ==
    /\ pc \in {"build", "main_build"} => ~fs.test_output_file.exists
    /\ (pc = "score" /\ fs.test_output_file.exists) => writer = current

----------------------------------------------------------------------------
(* Properties of the comparators *)

\* the i-th aligned word of a byte sequence, i from 0
Word(s, i) == SubSeq(s, chunk_size * i + 1, Min(chunk_size * (i + 1), Len(s)))

\* number of aligned words a sequence of n bytes occupies
Words(n) == (n + chunk_size - 1) \div chunk_size

DifferingWords(a, b, n) == {i \in 0..(n - 1) : Word(a, i) # Word(b, i)}

\* the score of byte sequences a and b: one per differing pair of words of
\* equal length; at the first pair of unequal length, one per non-empty side
RefScore(a, b) ==
    IF Len(a) = Len(b)
    THEN Cardinality(DifferingWords(a, b, Words(Len(a))))
    ELSE LET short == Min(Len(a), Len(b))
             full == short \div chunk_size
         IN  Cardinality(DifferingWords(a, b, full))
             + (IF short % chunk_size # 0 THEN 1 ELSE 0) + 1

FirstLines(out) == Take(Split(out), DumpLines)

\* C10: compare_jffs2_dumps declares a match if and only if the dump tool
\* succeeded on both images and the first 20 lines of the outputs are equal.
C10_DumpMatchIffEqualPrefix ==
    pc = "dump_done" =>
        (dumps_match <=>
            /\ dump1.status = "ok"
            /\ dump2.status = "ok"
            /\ FirstLines(dump1.stdout) = FirstLines(dump2.stdout))


\* C11: compare_jffs2 removes both temporary directories it created on every
\* exit path (either verdict, or an exception of the extraction tool on the
\* first or the second image): between comparisons no temporary directory
\* exists, and during one only its own two do.
C11_TempDirsRemoved ==
    /\ pc = "jffs2_idle" => DOMAIN tmpdirs = {}
    /\ pc \in {"jffs2_extract1", "jffs2_extract2", "jffs2_compare", "jffs2_finally"}
          => DOMAIN tmpdirs = {tmpdir1, tmpdir2}

\* a second comparison has ended with the tool failing on the second image,
\* both of its directories holding extracted files
C11_Witness ==
    /\ pc = "jffs2_idle"
    /\ mkdtemp_count = 4
    /\ extract_runs = 4
    /\ jffs2_result = "CalledProcessError"

\* the options that take their value from the next argument
ArgOptions == {"-r", "-o", "-e", "-s", "-p", "-c", "-m", "-D"}

\* the short spelling of a long option written with "="
ShortOf(long) ==
    CASE long = "--pad=" -> "-p"
      [] long = "--compression-mode=" -> "-m"
      [] long = "--disable-compressor=" -> "-x"
      [] long = "--enable-compressor=" -> "-X"
      [] OTHER -> long

RECURSIVE OptionsFrom(_, _)
\* the options of an argument list with their values, from argument i on
OptionsFrom(cmd, i) ==
    IF i > Len(cmd) THEN {}
    ELSE IF Len(cmd[i]) = 2
         THEN {[opt |-> ShortOf(cmd[i][1]), val |-> <<cmd[i][2]>>]} \cup OptionsFrom(cmd, i + 1)
    ELSE IF cmd[i][1] \in ArgOptions /\ i < Len(cmd)
         THEN {[opt |-> cmd[i][1], val |-> cmd[i + 1]]} \cup OptionsFrom(cmd, i + 2)
    ELSE {[opt |-> cmd[i][1], val |-> <<>>]} \cup OptionsFrom(cmd, i + 1)

Options(cmd) == OptionsFrom(cmd, 1)

\* the number of squash flags among the arguments
SquashFlags(cmd) == Cardinality({i \in 1..Len(cmd) : cmd[i] \in {<<"-q">>, <<"-U">>, <<"-P">>}})

\* C12: for the same logical parameters the argument list of build_jffs2 and
\* the one split from the option string of the search loop carry the same
\* options with the same values, for every tuple of the search space.
C12_RenderingsEquivalent ==
    (pc = "rendered" /\ named = NamedParams(rtuple))
        => Options(cmd_named) = Options(cmd_string)

\* C13: each rendered command line carries at most one flag of the squash
\* group, also when several squash switches are set, and no token for a value
\* that is None.
C13_OneSquashFlagNoNoneToken ==
    pc = "rendered" =>
        /\ SquashFlags(cmd_named) <= 1
        /\ SquashFlags(cmd_string) <= 1
        /\ \A i \in 1..Len(cmd_named) : \A j \in 1..Len(cmd_named[i]) :
              cmd_named[i][j] # None
        /\ \A i \in 1..Len(cmd_string) : \A j \in 1..Len(cmd_string[i]) :
              cmd_string[i][j] # None

\* C14: after set_timestamps_recursively(root, t) every file and every
\* directory of the source tree carries t, hence so do all of them at every
\* candidate build.
C14_AllTimestampsUniform ==
    pc = "build" => \A n \in TreeNodes : tree[n] = unix_time

\* C15: in one run of the search the normalizer runs exactly once, before the
\* first candidate build, never again, and no other step of the search changes
\* a timestamp of the source tree.
C15_State ==
    /\ pc \in {"main", "scan", "main_build", "exit"} => normalizer_runs = 0
    /\ pc \in {"iter", "build", "score", "after_loop", "exact_match", "exhausted",
               "aborted"} => normalizer_runs = 1
    /\ normalizer_runs = 0 => Len(log) = 0

C15_Step == (tree' # tree \/ normalizer_runs' # normalizer_runs) => pc = "scan"

C15_NormalizerRunsOnce == []C15_State /\ [][C15_Step]_vars

\* a search of four builds has ended, the normalizer having run once
C15_Witness ==
    /\ pc = "exhausted"
    /\ Len(log) = 4
    /\ normalizer_runs = 1
    /\ tree["root/dir/file"] = unix_time

\* C16: for every built candidate scoring below the threshold the search runs
\* the extraction comparator (both images extracted with the extraction tool
\* into temporary directories) before it moves on or returns.
C16_CloseMatchExtracted ==
    \A i \in Scored : Less(log[i].score, CloseThreshold) =>
        /\ extract_runs >= 2
        /\ mkdtemp_count >= 2

\* C17: a search that aborts because the reference is unreadable leaves every
\* timestamp of the source tree as it was.
C17_AbortLeavesTreeUnmodified ==
    pc = "aborted" => tree = [n \in TreeNodes |-> 0]

====
